---- MODULE Spec2Model ----
(***************************************************************************)
(* Model of the proxy-entitlement connector (src/src/index.ts,             *)
(* src/src/isc-client.ts, src/unnamed/part_000 = model/entitlement.ts).    *)
(*                                                                         *)
(* Each handler of the connector is a sequential process; its position is  *)
(* pc, and it is cut at the awaits of the source.  The identity platform   *)
(* is the environment: its state is held in the variables srcEnts,         *)
(* identities, rawEnts and accounts, and the outcome of a remote call that *)
(* can be rejected is a nondeterministic choice.                           *)
(***************************************************************************)
EXTENDS Integers, Sequences, FiniteSets, TLC

VARIABLES
    op,                    \* the handler being run
    pc,                    \* its position
    srcEnts,               \* platform: entitlements of the proxy source (name, value, attributes.ids)
    identities,            \* platform: identity documents (name, id, access)
    rawEnts,               \* platform: entitlement documents matched by config.search
    accounts,              \* platform: the account of input.identity on the proxy source, or NoValue
    profiles,              \* platform: access profiles (id, name, entitlements, requestable)
    config,                \* the connector's configuration
    input,                 \* the handler's input
    idx,                   \* loop index of the handler's current for-loop
    entitlementsAttribute, \* stdAccountList: the Set<string> of one identity
    entitlementSearch,     \* stdEntitlementList: the documents the search returned
    products,              \* stdEntitlementList: Map product name -> node, in insertion order
    roles,                 \* stdEntitlementList: Map role id -> node, in insertion order
    entitlements,          \* stdEntitlementList: the leaf records built so far
    request,               \* createAccessRequest: its arguments, comment and sourceEntitlements
    response,              \* createAccessRequest: the response it returns
    entitlementsAdd,       \* stdAccountUpdate
    entitlementsRemove,    \* stdAccountUpdate
    error,                 \* the error the handler was left with, "" if none
    out,                   \* records passed to res.send, in order
    calls,                 \* remote calls and timers so far, in order
    failures               \* rejected remote calls counted so far

vars == <<op, pc, srcEnts, identities, rawEnts, accounts, profiles, config, input,
          idx, entitlementsAttribute, entitlementSearch, products, roles,
          entitlements, request, response, entitlementsAdd, entitlementsRemove,
          error, out, calls, failures>>

platform == <<srcEnts, identities, rawEnts, accounts, profiles>>
localsAL == <<entitlementsAttribute>>
localsEL == <<entitlementSearch, products, roles, entitlements>>
localsAR == <<request, response, entitlementsAdd, entitlementsRemove>>

----------------------------------------------------------------------------
(* Bounds *)

MaxAccess == 3        \* access items held by one identity
MaxEnts == 2          \* entitlement documents the search returns
MaxFailures == 2      \* access-request submissions the platform rejects in one run
MaxSyncFailures == 1  \* access-profile calls the platform rejects in one pass
MaxNames == 2         \* proxy entitlement names in one create-account input
MaxChanges == 2       \* changes in one update-account input
MaxPasses == 2        \* list-entitlements passes the host runs one after the other
MaxNameLen == 7       \* characters of an entitlement name given to parseName

----------------------------------------------------------------------------
(* JavaScript values and containers; Array.prototype.filter is SelectSeq *)

NoValue == [kind |-> "undefined"]

JSString(s) == [kind |-> "string", str |-> s]
JSObject(o) == [kind |-> "object", obj |-> o]

\* Array.prototype.includes compares with SameValueZero: values of different
\* types are never equal, strings are equal by content, objects by identity.
SameValueZero(u, v) == u.kind = v.kind /\ u = v

Range(s) == {s[i] : i \in DOMAIN s}

\* Set.prototype.add on an insertion-ordered Set, kept as a duplicate-free sequence.
SetAddAppends(s, x) == Append(s, x)
SetAdd(s, x) == IF x \in Range(s) THEN s ELSE Append(s, x)

RECURSIVE SetAddAll(_, _)
SetAddAll(s, xs) ==
    IF xs = <<>> THEN s ELSE SetAddAll(SetAdd(s, Head(xs)), Tail(xs))

\* Array.prototype.flat over a sequence of sequences
RECURSIVE Flat(_)
Flat(ss) == IF ss = <<>> THEN <<>> ELSE Head(ss) \o Flat(Tail(ss))

NoDuplicates(s) == \A i, j \in DOMAIN s : s[i] = s[j] => i = j

\* All subsequences of s with at most n elements (order of s kept).
RECURSIVE SubSeqsUpTo(_, _)
SubSeqsUpTo(s, n) ==
    IF s = <<>> \/ n = 0 THEN {<<>>}
    ELSE SubSeqsUpTo(Tail(s), n)
         \cup {<<Head(s)>> \o t : t \in SubSeqsUpTo(Tail(s), n - 1)}

----------------------------------------------------------------------------
(* The platform: the proxy source and what the identity index holds *)

ProxySourceId == "proxySrc"     \* source.id of the source found by findSource
RawSourceId == "rawSrc"         \* the monitored source of the raw entitlements

Ent(n, ids) == [name |-> n, value |-> n, ids |-> ids]

\* What listEntitlements(source.id) can return.  The records of the proxy
\* source are the ones list-entitlements emitted: leaves, role nodes and
\* product nodes, with name = value (attributes.id = attributes.name).
\* The last two configurations hold a node whose attributes.ids is empty and
\* a role node standing for a single raw entitlement.
SrcEntConfigs ==
    { << Ent("p-e-r", <<"a">>), Ent("p-f-r", <<"b">>),
         Ent("p-r", <<"a", "b">>), Ent("p", <<"a", "b">>) >>,
      << Ent("p-e-r", <<"a">>), Ent("p-r", <<"a">>), Ent("p", <<>>) >>,
      << Ent("p-r", <<"a", "b">>), Ent("p", <<"a", "b", "c">>) >> }

Item(t, i, n, s) == [type |-> t, id |-> i, name |-> n, source |-> s]

\* The access items an identity document can carry.
AccessUniverse ==
    << Item("ENTITLEMENT", "a", "p-e-r", RawSourceId),
       Item("ENTITLEMENT", "b", "p-f-r", RawSourceId),
       Item("ENTITLEMENT", "c", "q-e-r", RawSourceId),
       Item("ROLE", "a", "role-a", "none"),
       Item("ENTITLEMENT", "g1", "p-r", ProxySourceId),
       Item("ENTITLEMENT", "g2", "p", ProxySourceId),
       Item("ENTITLEMENT", "g3", "p-e-r", ProxySourceId) >>

SubjectNames == <<"alice", "bob">>

IdentityDocs ==
    { [i \in DOMAIN SubjectNames |->
          [name |-> SubjectNames[i], id |-> SubjectNames[i], access |-> acc[i]]] :
      acc \in [DOMAIN SubjectNames -> SubSeqsUpTo(AccessUniverse, MaxAccess)] }

----------------------------------------------------------------------------
(* stdAccountList *)

\* new Map(entitlements.map((x) => [x.name, x])).get(name): the last entry
\* of that name wins.
RECURSIVE MapGet(_, _)
MapGet(ents, name) ==
    IF ents = <<>> THEN NoValue
    ELSE IF ents[Len(ents)].name = name THEN JSObject(ents[Len(ents)])
    ELSE MapGet(SubSeq(ents, 1, Len(ents) - 1), name)

\* new Set(entitlements.map((x) => x.attributes.ids).flat())
SourceEntitlementIds(ents) == Range(Flat([i \in DOMAIN ents |-> ents[i].ids]))

\* access.filter((x) => x.type === 'ENTITLEMENT' && sourceEntitlementIds.has(x.id))
CurrentSourceEntitlementsAnyType(access, ents) ==
    LET Keep(x) == x.id \in SourceEntitlementIds(ents)
    IN  SelectSeq(access, Keep)
CurrentSourceEntitlements(access, ents) ==
    LET Keep(x) == x.type = "ENTITLEMENT" /\ x.id \in SourceEntitlementIds(ents)
    IN  SelectSeq(access, Keep)

\* access.filter((x) => x.type === 'ENTITLEMENT' && x.source?.id === source.id)
CurrentProxyEntitlements(access) ==
    LET Keep(x) == x.type = "ENTITLEMENT" /\ x.source = ProxySourceId
    IN  SelectSeq(access, Keep)

\* for (const entitlement of currentSourceEntitlements) entitlementsAttribute.add(entitlement.name)
Pass1(current) == SetAddAll(<<>>, [i \in DOMAIN current |-> current[i].name])

\* currentSourceEntitlements.includes(x): x is a string of attributes.ids,
\* the array holds access item objects.
IncludesAlways(current, x) == TRUE
Includes(current, x) ==
    \E i \in DOMAIN current : SameValueZero(JSObject(current[i]), JSString(x))

\* ids.every((x) => currentSourceEntitlements.includes(x))
Every(ids, current) == \A k \in DOMAIN ids : Includes(current, ids[k])

\* for (const entitlement of currentProxyEntitlements) { ... }
RECURSIVE Pass2(_, _, _, _)
Pass2(attr, proxies, current, ents) ==
    IF proxies = <<>> THEN attr
    ELSE LET entitlement == Head(proxies)
             entitlementObject == MapGet(ents, entitlement.name)
             add == /\ entitlementObject # NoValue
                    /\ entitlement.name \notin Range(attr)
                    /\ Every(entitlementObject.obj.ids, current)
         IN  Pass2(IF add THEN SetAdd(attr, entitlementObject.obj.value) ELSE attr,
                   Tail(proxies), current, ents)

\* if (entitlementsAttribute.size > 0)
SendsAlways(attr) == TRUE
Sends(attr) == Len(attr) > 0

AccountRecord(name, ents) ==
    [identity |-> name, uuid |-> name,
     attributes |-> [id |-> name, name |-> name, entitlements |-> ents]]

InitAccountList ==
    /\ op = "stdAccountList"
    /\ pc = "listEntitlements"
    /\ srcEnts \in SrcEntConfigs
    /\ identities \in IdentityDocs
    /\ rawEnts = <<>>
    /\ accounts = NoValue
    /\ profiles = <<>>
    /\ config = [createAccessProfile |-> FALSE]
    /\ input = NoValue
    /\ idx = 0
    /\ entitlementsAttribute = <<>>
    /\ entitlementSearch = <<>>
    /\ products = <<>>
    /\ roles = <<>>
    /\ entitlements = <<>>
    /\ request = NoValue
    /\ response = NoValue
    /\ entitlementsAdd = <<>>
    /\ entitlementsRemove = <<>>
    /\ error = ""
    /\ out = <<>>
    /\ calls = <<>>
    /\ failures = 0

\* lines 116-123: the two reads
AccountListRead ==
    /\ op = "stdAccountList" /\ pc = "listEntitlements"
    /\ calls' = calls \o <<[api |-> "listEntitlements"], [api |-> "search"]>>
    /\ idx' = 1
    /\ pc' = IF identities = <<>> THEN "done" ELSE "pass1"
    /\ UNCHANGED <<op, platform, config, input, localsAL, localsEL, localsAR, error, out, failures>>

\* lines 125-136: pass 1 for identities[idx]
AccountListPass1 ==
    /\ op = "stdAccountList" /\ pc = "pass1"
    /\ entitlementsAttribute' =
           Pass1(CurrentSourceEntitlements(identities[idx].access, srcEnts))
    /\ pc' = "pass2"
    /\ UNCHANGED <<op, platform, config, input, idx, localsEL, localsAR, error, out, calls, failures>>

\* lines 138-146: pass 2 for identities[idx]
AccountListPass2 ==
    /\ op = "stdAccountList" /\ pc = "pass2"
    /\ entitlementsAttribute' =
           Pass2(entitlementsAttribute,
                 CurrentProxyEntitlements(identities[idx].access),
                 CurrentSourceEntitlements(identities[idx].access, srcEnts),
                 srcEnts)
    /\ pc' = "send"
    /\ UNCHANGED <<op, platform, config, input, idx, localsEL, localsAR, error, out, calls, failures>>

\* lines 148-162: the record of identities[idx], then the next identity
AccountListSend ==
    /\ op = "stdAccountList" /\ pc = "send"
    /\ out' = IF Sends(entitlementsAttribute)
              THEN Append(out, AccountRecord(identities[idx].name, entitlementsAttribute))
              ELSE out
    /\ idx' = idx + 1
    /\ pc' = IF idx = Len(identities) THEN "done" ELSE "pass1"
    /\ UNCHANGED <<op, platform, config, input, localsAL, localsEL, localsAR, error, calls, failures>>

NextAccountList ==
    \/ AccountListRead
    \/ AccountListPass1
    \/ AccountListPass2
    \/ AccountListSend

SpecAccountList == InitAccountList /\ [][NextAccountList]_vars

----------------------------------------------------------------------------
(* model/entitlement.ts: names are sequences of characters *)

Hyphen == "-"

\* String.prototype.split('-')
RECURSIVE Split(_)
Split(s) ==
    IF \A i \in DOMAIN s : s[i] # Hyphen THEN <<s>>
    ELSE LET i == CHOOSE j \in DOMAIN s :
                      s[j] = Hyphen /\ \A k \in 1..(j - 1) : s[k] # Hyphen
         IN  <<SubSeq(s, 1, i - 1)>> \o Split(SubSeq(s, i + 1, Len(s)))

\* parts.pop() ?? ''
PopOr(parts) == IF parts = <<>> THEN <<>> ELSE parts[Len(parts)]
AfterPopKeeps(parts) == parts
AfterPop(parts) == IF parts = <<>> THEN <<>> ELSE SubSeq(parts, 1, Len(parts) - 1)

\* parseName: name?.split('-').filter(Boolean), then three pops
ParseName(name) ==
    LET NonEmpty(x) == x # <<>>
        parts == IF name = NoValue THEN <<>> ELSE SelectSeq(Split(name.str), NonEmpty)
        parts1 == AfterPop(parts)
        parts2 == AfterPop(parts1)
    IN  [product |-> PopOr(parts2), environment |-> PopOr(parts1), role |-> PopOr(parts)]

\* `${product}-${role}`
Template(product, role) == product \o <<Hyphen>> \o role

\* new Entitlement(entitlementDocument)
EntitlementOfIdsByName(doc) ==
    LET parsed == ParseName(JSString(doc.name))
    IN  [identity |-> doc.name,
         uuid |-> doc.name,
         type |-> "entitlement",
         attributes |->
             [id |-> doc.name,
              name |-> doc.name,
              description |-> <<"Proxy entitlement for ", parsed.environment, " environment">>,
              product |-> parsed.product,
              environment |-> parsed.environment,
              role |-> parsed.role,
              parent |-> Template(parsed.product, parsed.role),
              ids |-> <<doc.name>>]]
EntitlementOf(doc) ==
    LET parsed == ParseName(JSString(doc.name))
    IN  [identity |-> doc.name,
         uuid |-> doc.name,
         type |-> "entitlement",
         attributes |->
             [id |-> doc.name,
              name |-> doc.name,
              description |-> <<"Proxy entitlement for ", parsed.environment, " environment">>,
              product |-> parsed.product,
              environment |-> parsed.environment,
              role |-> parsed.role,
              parent |-> Template(parsed.product, parsed.role),
              ids |-> <<doc.id>>]]

\* a string is truthy when it is neither undefined nor empty
Truthy(v) == v.kind = "string" /\ v.str # <<>>

\* Entitlement.buildParent(product, role?)
BuildParent(product, role) ==
    LET name == IF Truthy(role) THEN Template(product, role.str) ELSE product
        description ==
            IF Truthy(role) THEN <<"Proxy entitlement for ", role.str, " role">>
            ELSE <<"Proxy entitlement for ", product, " product">>
        roleOr == IF role = NoValue THEN <<>> ELSE role.str
    IN  IF Truthy(role)
        THEN [identity |-> name, uuid |-> name, type |-> "entitlement",
              attributes |-> [id |-> name, name |-> name, description |-> description,
                              product |-> product, role |-> roleOr, ids |-> <<>>,
                              parent |-> product]]
        ELSE [identity |-> name, uuid |-> name, type |-> "entitlement",
              attributes |-> [id |-> name, name |-> name, description |-> description,
                              product |-> product, role |-> roleOr, ids |-> <<>>]]

----------------------------------------------------------------------------
(* stdEntitlementList *)

\* A Map as the sequence of its entries [key, node], in insertion order.
MapHas(m, key) == \E k \in DOMAIN m : m[k].key = key
MapIndex(m, key) == CHOOSE k \in DOMAIN m : m[k].key = key
MapSetFront(m, key, node) ==
    IF MapHas(m, key) THEN [m EXCEPT ![MapIndex(m, key)].node = node]
    ELSE <<[key |-> key, node |-> node]>> \o m
MapSet(m, key, node) ==
    IF MapHas(m, key) THEN [m EXCEPT ![MapIndex(m, key)].node = node]
    ELSE Append(m, [key |-> key, node |-> node])

\* ids.push(id) on the node's attributes.ids
PushIdToCopy(node, id) == node
PushId(node, id) == [node EXCEPT !.attributes.ids = Append(@, id)]

\* const roleId = `${productName}-${roleName}`
RoleIdRoleOnly(productName, roleName) == roleName
RoleId(productName, roleName) == Template(productName, roleName)

\* lines 186-194: upsert of the product node, then productIds.push(e.id)
UpsertProductReplaces(m, productName, id) ==
    MapSet(m, productName, PushId(BuildParent(productName, NoValue), id))
UpsertProduct(m, productName, id) ==
    IF ~MapHas(m, productName)
    THEN MapSet(m, productName, PushId(BuildParent(productName, NoValue), id))
    ELSE MapSet(m, productName, PushId(m[MapIndex(m, productName)].node, id))

\* lines 196-204: upsert of the role node, then roleIds.push(e.id)
UpsertRole(m, productName, roleName, id) ==
    LET roleId == RoleId(productName, roleName)
    IN  IF ~MapHas(m, roleId)
        THEN MapSet(m, roleId, PushId(BuildParent(productName, JSString(roleName)), id))
        ELSE MapSet(m, roleId, PushId(m[MapIndex(m, roleId)].node, id))

\* buildEntitlementRef
BuildEntitlementRef(ids) == [k \in DOMAIN ids |-> [id |-> ids[k], type |-> "ENTITLEMENT"]]

\* The names of the entitlement documents the search can return.
RawNames ==
    { <<"p", "-", "e", "-", "r">>,
      <<"p", "-", "f", "-", "r">>,
      <<"p", "-", "e", "-", "s">>,
      <<"q", "-", "e", "-", "r">>,
      <<"-">> }

RawIds == <<"e1", "e2", "e3", "e4">>

\* isc.search sorts by id: the k-th document has the k-th id.
RawEntDocs ==
    UNION { { [k \in 1..n |-> [id |-> RawIds[k], name |-> nm[k],
                               requestable |-> rq[k], source |-> RawSourceId]] :
                nm \in [1..n -> RawNames], rq \in [1..n -> BOOLEAN] } :
            n \in 0..MaxEnts }

\* The access profiles the tenant holds before the run: one of the name of
\* product p, left requestable and with a stale membership; none of any other
\* name.
ProfileConfigs ==
    { << [id |-> "ap1", name |-> <<"p">>,
          entitlements |-> BuildEntitlementRef(<<"e9">>), requestable |-> TRUE] >> }

InitEntitlementList ==
    /\ op = "stdEntitlementList"
    /\ pc = "search"
    /\ srcEnts = <<>>
    /\ identities = <<>>
    /\ rawEnts \in RawEntDocs
    /\ accounts = NoValue
    /\ config \in [createAccessProfile : BOOLEAN]
    /\ profiles \in (IF config.createAccessProfile THEN ProfileConfigs ELSE {<<>>})
    /\ input = NoValue
    /\ idx = 0
    /\ entitlementsAttribute = <<>>
    /\ entitlementSearch = <<>>
    /\ products = <<>>
    /\ roles = <<>>
    /\ entitlements = <<>>
    /\ request = NoValue
    /\ response = NoValue
    /\ entitlementsAdd = <<>>
    /\ entitlementsRemove = <<>>
    /\ error = ""
    /\ out = <<>>
    /\ calls = <<>>
    /\ failures = 0

\* lines 167-174: the search; entitlementSearch[0].source of an empty result
\* is a TypeError
EntitlementListSearchLenient ==
    /\ op = "stdEntitlementList" /\ pc = "search"
    /\ calls' = Append(calls, [api |-> "search"])
    /\ entitlementSearch' = rawEnts
    /\ idx' = 1
    /\ pc' = IF rawEnts = <<>> THEN "done" ELSE "build"
    /\ UNCHANGED <<op, platform, config, input, localsAL, products, roles,
                   entitlements, localsAR, out, failures, error>>
EntitlementListSearch ==
    /\ op = "stdEntitlementList" /\ pc = "search"
    /\ calls' = Append(calls, [api |-> "search"])
    /\ entitlementSearch' = rawEnts
    /\ idx' = 1
    /\ pc' = IF rawEnts = <<>> THEN "failed" ELSE "build"
    /\ error' = IF rawEnts = <<>> THEN "TypeError" ELSE error
    /\ UNCHANGED <<op, platform, config, input, localsAL, products, roles,
                   entitlements, localsAR, out, failures>>

\* lines 175-212: one iteration of the build loop.  The requestable flip is
\* awaited outside any try: its rejection leaves the handler.
EntitlementListBuildAlwaysFlips ==
    /\ op = "stdEntitlementList" /\ pc = "build"
    /\ LET e == entitlementSearch[idx]
           entitlement == EntitlementOf(e)
           productName == entitlement.attributes.product
           roleName == entitlement.attributes.role
           flip(ok) == [api |-> "patchEntitlement", id |-> e.id,
                        path |-> "/requestable", value |-> TRUE, ok |-> ok]
       IN  /\ products' = UpsertProduct(products, productName, e.id)
           /\ roles' = UpsertRole(roles, productName, roleName, e.id)
           /\ \/ /\ calls' = Append(calls, flip(TRUE))
                 /\ rawEnts' = [rawEnts EXCEPT ![idx].requestable = TRUE]
                 /\ entitlements' = Append(entitlements, entitlement)
                 /\ idx' = IF idx = Len(entitlementSearch) THEN 1 ELSE idx + 1
                 /\ pc' = IF idx = Len(entitlementSearch) THEN "products" ELSE "build"
                 /\ UNCHANGED <<failures, error>>
              \/ /\ calls' = Append(calls, flip(FALSE))
                 /\ UNCHANGED failures
                 /\ pc' = "failed"
                 /\ error' = "RemoteError"
                 /\ UNCHANGED <<rawEnts, entitlements, idx>>
    /\ UNCHANGED <<op, srcEnts, identities, accounts, profiles, config, input,
                   localsAL, entitlementSearch, localsAR, out>>
EntitlementListBuild ==
    /\ op = "stdEntitlementList" /\ pc = "build"
    /\ LET e == entitlementSearch[idx]
           entitlement == EntitlementOf(e)
           productName == entitlement.attributes.product
           roleName == entitlement.attributes.role
           flip(ok) == [api |-> "patchEntitlement", id |-> e.id,
                        path |-> "/requestable", value |-> TRUE, ok |-> ok]
       IN  /\ products' = UpsertProduct(products, productName, e.id)
           /\ roles' = UpsertRole(roles, productName, roleName, e.id)
           /\ \/ /\ e.requestable
                 /\ entitlements' = Append(entitlements, entitlement)
                 /\ idx' = IF idx = Len(entitlementSearch) THEN 1 ELSE idx + 1
                 /\ pc' = IF idx = Len(entitlementSearch) THEN "products" ELSE "build"
                 /\ UNCHANGED <<rawEnts, calls, failures, error>>
              \/ /\ ~e.requestable
                 /\ calls' = Append(calls, flip(TRUE))
                 /\ rawEnts' = [rawEnts EXCEPT ![idx].requestable = TRUE]
                 /\ entitlements' = Append(entitlements, entitlement)
                 /\ idx' = IF idx = Len(entitlementSearch) THEN 1 ELSE idx + 1
                 /\ pc' = IF idx = Len(entitlementSearch) THEN "products" ELSE "build"
                 /\ UNCHANGED <<failures, error>>
              \/ /\ ~e.requestable
                 /\ calls' = Append(calls, flip(FALSE))
                 /\ UNCHANGED failures
                 /\ pc' = "failed"
                 /\ error' = "RemoteError"
                 /\ UNCHANGED <<rawEnts, entitlements, idx>>
    /\ UNCHANGED <<op, srcEnts, identities, accounts, profiles, config, input,
                   localsAL, entitlementSearch, localsAR, out>>

\* getAccessProfileByName: response.data[0]
ProfileHasNever(name) == FALSE
ProfileHas(name) == \E k \in DOMAIN profiles : profiles[k].name = name
ProfileIndex(name) ==
    CHOOSE k \in DOMAIN profiles :
        profiles[k].name = name /\ \A j \in 1..(k - 1) : profiles[j].name # name

\* lines 216-249 and 255-288: the synchronisation of one node, inside a try
\* whose catch only logs.  Each outcome is the profiles afterwards, the calls
\* made and whether a call was rejected.
SyncOutcomesKeepsRequestable(name, node) ==
    LET entitlementRefs == BuildEntitlementRef(node.attributes.ids)
        get(ok) == [api |-> "getAccessProfileByName", name |-> name, ok |-> ok]
        update(ok) == [api |-> "updateAccessProfile", id |-> profiles[ProfileIndex(name)].id,
                       entitlements |-> entitlementRefs,
                       requestable |-> profiles[ProfileIndex(name)].requestable, ok |-> ok]
        create(ok) == [api |-> "createAccessProfile", name |-> name,
                       owner |-> "owner", source |-> entitlementSearch[1].source,
                       entitlements |-> entitlementRefs, requestable |-> FALSE, ok |-> ok]
        write(ok) == IF ProfileHas(name) THEN update(ok) ELSE create(ok)
        written ==
            IF ProfileHas(name)
            THEN [profiles EXCEPT ![ProfileIndex(name)].entitlements = entitlementRefs]
            ELSE Append(profiles, [id |-> <<"ap", name>>, name |-> name,
                                   entitlements |-> entitlementRefs,
                                   requestable |-> FALSE])
    IN  IF ~config.createAccessProfile
        THEN {[profiles |-> profiles, calls |-> <<>>, rejected |-> 0]}
        ELSE {[profiles |-> written, calls |-> <<get(TRUE), write(TRUE)>>, rejected |-> 0]}
             \cup (IF failures < MaxSyncFailures
                   THEN {[profiles |-> profiles, calls |-> <<get(FALSE)>>, rejected |-> 1],
                         [profiles |-> profiles, calls |-> <<get(TRUE), write(FALSE)>>,
                          rejected |-> 1]}
                   ELSE {})
SyncOutcomes(name, node) ==
    LET entitlementRefs == BuildEntitlementRef(node.attributes.ids)
        get(ok) == [api |-> "getAccessProfileByName", name |-> name, ok |-> ok]
        update(ok) == [api |-> "updateAccessProfile", id |-> profiles[ProfileIndex(name)].id,
                       entitlements |-> entitlementRefs, requestable |-> FALSE, ok |-> ok]
        create(ok) == [api |-> "createAccessProfile", name |-> name,
                       owner |-> "owner", source |-> entitlementSearch[1].source,
                       entitlements |-> entitlementRefs, requestable |-> FALSE, ok |-> ok]
        write(ok) == IF ProfileHas(name) THEN update(ok) ELSE create(ok)
        written ==
            IF ProfileHas(name)
            THEN [profiles EXCEPT ![ProfileIndex(name)].entitlements = entitlementRefs,
                                  ![ProfileIndex(name)].requestable = FALSE]
            ELSE Append(profiles, [id |-> <<"ap", name>>, name |-> name,
                                   entitlements |-> entitlementRefs,
                                   requestable |-> FALSE])
    IN  IF ~config.createAccessProfile
        THEN {[profiles |-> profiles, calls |-> <<>>, rejected |-> 0]}
        ELSE {[profiles |-> written, calls |-> <<get(TRUE), write(TRUE)>>, rejected |-> 0]}
             \cup (IF failures < MaxSyncFailures
                   THEN {[profiles |-> profiles, calls |-> <<get(FALSE)>>, rejected |-> 1],
                         [profiles |-> profiles, calls |-> <<get(TRUE), write(FALSE)>>,
                          rejected |-> 1]}
                   ELSE {})

\* lines 214-251: one product node
EntitlementListSendProductAborts ==
    /\ op = "stdEntitlementList" /\ pc = "products"
    /\ \E o \in SyncOutcomes(products[idx].key, products[idx].node) :
          /\ profiles' = o.profiles
          /\ calls' = calls \o o.calls
          /\ failures' = failures + o.rejected
          /\ IF o.rejected = 1
             THEN /\ pc' = "failed"
                  /\ error' = "RemoteError"
                  /\ UNCHANGED <<out, idx>>
             ELSE /\ out' = Append(out, products[idx].node)
                  /\ idx' = IF idx = Len(products) THEN 1 ELSE idx + 1
                  /\ pc' = IF idx = Len(products) THEN "roles" ELSE "products"
                  /\ UNCHANGED error
    /\ UNCHANGED <<op, srcEnts, identities, rawEnts, accounts, config, input,
                   localsAL, localsEL, localsAR>>
EntitlementListSendProduct ==
    /\ op = "stdEntitlementList" /\ pc = "products"
    /\ \E o \in SyncOutcomes(products[idx].key, products[idx].node) :
          /\ profiles' = o.profiles
          /\ calls' = calls \o o.calls
          /\ failures' = failures + o.rejected
    /\ out' = Append(out, products[idx].node)
    /\ idx' = IF idx = Len(products) THEN 1 ELSE idx + 1
    /\ pc' = IF idx = Len(products) THEN "roles" ELSE "products"
    /\ UNCHANGED <<op, srcEnts, identities, rawEnts, accounts, config, input,
                   localsAL, localsEL, localsAR, error>>

\* lines 253-290: one role node
EntitlementListSendRole ==
    /\ op = "stdEntitlementList" /\ pc = "roles"
    /\ \E o \in SyncOutcomes(roles[idx].key, roles[idx].node) :
          /\ profiles' = o.profiles
          /\ calls' = calls \o o.calls
          /\ failures' = failures + o.rejected
    /\ out' = Append(out, roles[idx].node)
    /\ idx' = IF idx = Len(roles) THEN 1 ELSE idx + 1
    /\ pc' = IF idx = Len(roles) THEN "leaves" ELSE "roles"
    /\ UNCHANGED <<op, srcEnts, identities, rawEnts, accounts, config, input,
                   localsAL, localsEL, localsAR, error>>

\* lines 292-296: one leaf record
EntitlementListSendLeaf ==
    /\ op = "stdEntitlementList" /\ pc = "leaves"
    /\ out' = Append(out, entitlements[idx])
    /\ idx' = idx + 1
    /\ pc' = IF idx = Len(entitlements) THEN "done" ELSE "leaves"
    /\ UNCHANGED <<op, platform, config, input, localsAL, localsEL, localsAR, error, calls, failures>>

NextEntitlementList ==
    \/ EntitlementListSearch
    \/ EntitlementListBuild
    \/ EntitlementListSendProduct
    \/ EntitlementListSendRole
    \/ EntitlementListSendLeaf

SpecEntitlementList == InitEntitlementList /\ [][NextEntitlementList]_vars

\* The passes started so far: each starts with the search.
Passes == Cardinality({k \in DOMAIN calls : calls[k].api = "search"})

\* The host invokes stdEntitlementList again once the previous pass is over:
\* the handler's locals are fresh (lines 168-174), the tenant is as the
\* previous pass left it.
EntitlementListInvoke ==
    /\ op = "stdEntitlementList" /\ pc \in {"done", "failed"}
    /\ Passes < MaxPasses
    /\ pc' = "search"
    /\ idx' = 0
    /\ entitlementSearch' = <<>>
    /\ products' = <<>>
    /\ roles' = <<>>
    /\ entitlements' = <<>>
    /\ error' = ""
    /\ out' = <<>>
    /\ UNCHANGED <<op, platform, config, input, localsAL, localsAR, calls, failures>>

\* Passes are followed from a tenant whose search matches at most two
\* documents, with synchronisation enabled.
InitEntitlementListPasses ==
    /\ InitEntitlementList
    /\ config.createAccessProfile
    /\ Len(rawEnts) <= 2

NextEntitlementListPasses ==
    \/ EntitlementListSearch
    \/ EntitlementListBuild
    \/ EntitlementListSendProduct
    \/ EntitlementListSendRole
    \/ EntitlementListSendLeaf
    \/ EntitlementListInvoke

SpecEntitlementListPasses == InitEntitlementListPasses /\ [][NextEntitlementListPasses]_vars

----------------------------------------------------------------------------
(* parseName on its own *)

\* The names given to parseName: strings of letters and hyphens, or undefined.
NameChars == {"p", "q", Hyphen}
ParseInputs ==
    {NoValue} \cup {JSString(n) : n \in UNION {[1..k -> NameChars] : k \in 0..MaxNameLen}}

InitParseName ==
    /\ op = "parseName"
    /\ pc = "start"
    /\ srcEnts = <<>>
    /\ identities = <<>>
    /\ rawEnts = <<>>
    /\ accounts = NoValue
    /\ config = [createAccessProfile |-> FALSE]
    /\ profiles = <<>>
    /\ input \in ParseInputs
    /\ idx = 0
    /\ entitlementsAttribute = <<>>
    /\ entitlementSearch = <<>>
    /\ products = <<>>
    /\ roles = <<>>
    /\ entitlements = <<>>
    /\ request = NoValue
    /\ response = NoValue
    /\ entitlementsAdd = <<>>
    /\ entitlementsRemove = <<>>
    /\ error = ""
    /\ out = <<>>
    /\ calls = <<>>
    /\ failures = 0

\* parseName(name): its result is the one value put out
ParseNameCall ==
    /\ op = "parseName" /\ pc = "start"
    /\ out' = <<ParseName(input)>>
    /\ pc' = "parsed"
    /\ UNCHANGED <<op, platform, config, input, idx, localsAL, localsEL, localsAR,
                   error, calls, failures>>

NextParseName == ParseNameCall

SpecParseName == InitParseName /\ [][NextParseName]_vars

----------------------------------------------------------------------------
(* The hierarchy builder on its own: lines 171-204 of stdEntitlementList *)

\* lines 175-204 for every document of docs, from the maps given
RECURSIVE BuildHierarchyFrom(_, _)
BuildHierarchyFrom(maps, docs) ==
    IF docs = <<>> THEN maps
    ELSE LET e == Head(docs)
             entitlement == EntitlementOf(e)
             productName == entitlement.attributes.product
             roleName == entitlement.attributes.role
         IN  BuildHierarchyFrom(
                 [products |-> UpsertProduct(maps.products, productName, e.id),
                  roles |-> UpsertRole(maps.roles, productName, roleName, e.id)],
                 Tail(docs))

\* lines 171-172: both maps are new in every run
BuildHierarchy(docs) == BuildHierarchyFrom([products |-> <<>>, roles |-> <<>>], docs)

Perms(n) == {f \in [1..n -> 1..n] : \A i, j \in 1..n : f[i] = f[j] => i = j}

InitHierarchy ==
    /\ op = "buildHierarchy"
    /\ pc = "start"
    /\ srcEnts = <<>>
    /\ identities = <<>>
    /\ rawEnts \in RawEntDocs
    /\ accounts = NoValue
    /\ config = [createAccessProfile |-> FALSE]
    /\ profiles = <<>>
    /\ input = NoValue
    /\ idx = 0
    /\ entitlementsAttribute = <<>>
    /\ entitlementSearch = <<>>
    /\ products = <<>>
    /\ roles = <<>>
    /\ entitlements = <<>>
    /\ request = NoValue
    /\ response = NoValue
    /\ entitlementsAdd = <<>>
    /\ entitlementsRemove = <<>>
    /\ error = ""
    /\ out = <<>>
    /\ calls = <<>>
    /\ failures = 0

\* One run of the builder over the raw entitlement set, taken in any order;
\* the run leaves every entitlement requestable (lines 206-209).  A second
\* run follows the first.
HierarchyRun ==
    /\ op = "buildHierarchy" /\ pc \in {"start", "built"}
    /\ \E f \in Perms(Len(rawEnts)) :
          /\ entitlementSearch' = [k \in DOMAIN rawEnts |-> rawEnts[f[k]]]
          /\ products' = BuildHierarchy(entitlementSearch').products
          /\ roles' = BuildHierarchy(entitlementSearch').roles
    /\ rawEnts' = [k \in DOMAIN rawEnts |-> [rawEnts[k] EXCEPT !.requestable = TRUE]]
    /\ pc' = IF pc = "start" THEN "built" ELSE "rebuilt"
    /\ UNCHANGED <<op, srcEnts, identities, accounts, profiles, config, input, idx,
                   localsAL, entitlements, localsAR, error, out, calls, failures>>

NextHierarchy == HierarchyRun

SpecHierarchy == InitHierarchy /\ [][NextHierarchy]_vars

----------------------------------------------------------------------------
(* createAccessRequest and getSourceEntitlements *)

RetryDelayMs == 60000

GrantAccess == "GRANT_ACCESS"
RevokeAccess == "REVOKE_ACCESS"

\* isc.getEntitlementbySource(value, source.id): response.data[0]
GetEntitlementBySource(value) ==
    IF \E k \in DOMAIN srcEnts : srcEnts[k].value = value
    THEN JSObject(srcEnts[CHOOSE k \in DOMAIN srcEnts :
                      /\ srcEnts[k].value = value
                      /\ \A j \in 1..(k - 1) : srcEnts[j].value # value])
    ELSE NoValue

\* entitlement?.attributes?.ids ?? []
IdsOf(entitlement) == IF entitlement = NoValue THEN <<>> ELSE entitlement.obj.ids

\* getSourceEntitlements: Array.from of the Set of the ids of each value
RECURSIVE GetSourceEntitlementsFrom(_, _)
GetSourceEntitlementsFrom(accountEntitlements, entitlementValues) ==
    IF entitlementValues = <<>> THEN accountEntitlements
    ELSE GetSourceEntitlementsFrom(
             SetAddAll(accountEntitlements,
                       IdsOf(GetEntitlementBySource(Head(entitlementValues)))),
             Tail(entitlementValues))

GetSourceEntitlements(entitlementValues) ==
    GetSourceEntitlementsFrom(<<>>, entitlementValues)

\* the remote calls getSourceEntitlements makes
LookupCalls(entitlementValues) ==
    [k \in DOMAIN entitlementValues |->
        [api |-> "getEntitlementbySource", value |-> entitlementValues[k]]]

\* `Proxy access request for ${entitlements.join(', ')}`
Comment(names) == [text |-> "Proxy access request for ", joined |-> names]

\* isc.createAccessRequest(identity, entitlements, requestType, comment)
Submission(req, ok) ==
    [api |-> "createAccessRequest",
     requestedFor |-> <<req.identity>>,
     requestType |-> req.requestType,
     requestedItems |->
         [k \in DOMAIN req.sourceEntitlements |->
             [id |-> req.sourceEntitlements[k], type |-> "ENTITLEMENT",
              comment |-> req.comment]],
     ok |-> ok]

Timer == [api |-> "setTimeout", ms |-> RetryDelayMs]

\* the arguments of a call of createAccessRequest
Call(identity, names, requestType) ==
    [identity |-> identity, entitlements |-> names, requestType |-> requestType]

\* lines 67-70: the comment and the resolution of the names it was given
CreateAccessRequestResolve ==
    /\ pc = "request"
    /\ request' = [identity |-> request.identity,
                   entitlements |-> request.entitlements,
                   requestType |-> request.requestType,
                   comment |-> Comment(request.entitlements),
                   sourceEntitlements |-> GetSourceEntitlements(request.entitlements)]
    /\ calls' = calls \o LookupCalls(request.entitlements)
    /\ pc' = "submit"
    /\ UNCHANGED <<op, platform, config, input, idx, localsAL, localsEL, response,
                   entitlementsAdd, entitlementsRemove, error, out, failures>>

\* lines 72-74: the first submission, and the entry of the catch block
CreateAccessRequestSubmitSkipsEmpty ==
    /\ pc = "submit"
    /\ \/ /\ request.sourceEntitlements = <<>>
          /\ pc' = "returned"
          /\ UNCHANGED <<calls, response, failures>>
       \/ /\ request.sourceEntitlements # <<>>
          /\ calls' = Append(calls, Submission(request, TRUE))
          /\ response' = [receipt |-> Len(calls) + 1]
          /\ pc' = "returned"
          /\ UNCHANGED failures
       \/ /\ request.sourceEntitlements # <<>>
          /\ failures < MaxFailures
          /\ calls' = Append(calls, Submission(request, FALSE))
          /\ failures' = failures + 1
          /\ pc' = "wait"
          /\ UNCHANGED response
    /\ UNCHANGED <<op, platform, config, input, idx, localsAL, localsEL, request,
                   entitlementsAdd, entitlementsRemove, error, out>>
CreateAccessRequestSubmit ==
    /\ pc = "submit"
    /\ \/ /\ calls' = Append(calls, Submission(request, TRUE))
          /\ response' = [receipt |-> Len(calls) + 1]
          /\ pc' = "returned"
          /\ UNCHANGED failures
       \/ /\ failures < MaxFailures
          /\ calls' = Append(calls, Submission(request, FALSE))
          /\ failures' = failures + 1
          /\ pc' = "wait"
          /\ UNCHANGED response
    /\ UNCHANGED <<op, platform, config, input, idx, localsAL, localsEL, request,
                   entitlementsAdd, entitlementsRemove, error, out>>

\* line 77: the fixed delay
CreateAccessRequestWaitSkipped ==
    /\ pc = "wait"
    /\ pc' = "resubmit"
    /\ UNCHANGED <<op, platform, config, input, idx, localsAL, localsEL, localsAR,
                   error, out, calls, failures>>
CreateAccessRequestWait ==
    /\ pc = "wait"
    /\ calls' = Append(calls, Timer)
    /\ pc' = "resubmit"
    /\ UNCHANGED <<op, platform, config, input, idx, localsAL, localsEL, localsAR,
                   error, out, failures>>

\* line 78: the second submission; its rejection leaves the handler
CreateAccessRequestResubmitLoops ==
    /\ pc = "resubmit"
    /\ \/ /\ calls' = Append(calls, Submission(request, TRUE))
          /\ response' = [receipt |-> Len(calls) + 1]
          /\ pc' = "returned"
          /\ UNCHANGED <<failures, error>>
       \/ /\ failures < MaxFailures
          /\ calls' = Append(calls, Submission(request, FALSE))
          /\ failures' = failures + 1
          /\ pc' = "wait"
          /\ UNCHANGED <<response, error>>
    /\ UNCHANGED <<op, platform, config, input, idx, localsAL, localsEL, request,
                   entitlementsAdd, entitlementsRemove, out>>
CreateAccessRequestResubmitSwallows ==
    /\ pc = "resubmit"
    /\ \/ /\ calls' = Append(calls, Submission(request, TRUE))
          /\ response' = [receipt |-> Len(calls) + 1]
          /\ pc' = "returned"
          /\ UNCHANGED <<failures, error>>
       \/ /\ failures < MaxFailures
          /\ calls' = Append(calls, Submission(request, FALSE))
          /\ failures' = failures + 1
          /\ pc' = "returned"
          /\ UNCHANGED <<response, error>>
    /\ UNCHANGED <<op, platform, config, input, idx, localsAL, localsEL, request,
                   entitlementsAdd, entitlementsRemove, out>>
CreateAccessRequestResubmit ==
    /\ pc = "resubmit"
    /\ \/ /\ calls' = Append(calls, Submission(request, TRUE))
          /\ response' = [receipt |-> Len(calls) + 1]
          /\ pc' = "returned"
          /\ UNCHANGED <<failures, error>>
       \/ /\ failures < MaxFailures
          /\ calls' = Append(calls, Submission(request, FALSE))
          /\ failures' = failures + 1
          /\ pc' = "failed"
          /\ error' = "RemoteError"
          /\ UNCHANGED response
    /\ UNCHANGED <<op, platform, config, input, idx, localsAL, localsEL, request,
                   entitlementsAdd, entitlementsRemove, out>>

----------------------------------------------------------------------------
(* stdAccountCreate *)

SeqsUpTo(S, n) == UNION {[1..k -> S] : k \in 0..n}

\* The proxy entitlement names a request can carry; "zz" resolves to nothing.
ReqNames == {"p-r", "p", "zz"}

AccessIdentities == <<[name |-> "alice", id |-> "id-alice", access |-> <<>>]>>

\* isc.getIdentityByName(name)
GetIdentityByName(name) ==
    IF \E k \in DOMAIN identities : identities[k].name = name
    THEN JSObject(identities[CHOOSE k \in DOMAIN identities :
                      /\ identities[k].name = name
                      /\ \A j \in 1..(k - 1) : identities[j].name # name])
    ELSE NoValue

\* const name = input.attributes.name ?? input.identity
CreateName == IF input.attributes.name = NoValue THEN input.identity
              ELSE input.attributes.name.str

CreateInputs ==
    { [identity |-> i, attributes |-> [name |-> n, entitlements |-> es]] :
        i \in {"alice", "ghost"},
        n \in {NoValue, JSString("alice")},
        es \in SeqsUpTo(ReqNames, MaxNames) }

InitAccountCreate ==
    /\ op = "stdAccountCreate"
    /\ pc = "lookup"
    /\ srcEnts \in SrcEntConfigs
    /\ identities = AccessIdentities
    /\ rawEnts = <<>>
    /\ accounts = NoValue
    /\ profiles = <<>>
    /\ config = [createAccessProfile |-> FALSE]
    /\ input \in CreateInputs
    /\ idx = 0
    /\ entitlementsAttribute = <<>>
    /\ entitlementSearch = <<>>
    /\ products = <<>>
    /\ roles = <<>>
    /\ entitlements = <<>>
    /\ request = NoValue
    /\ response = NoValue
    /\ entitlementsAdd = <<>>
    /\ entitlementsRemove = <<>>
    /\ error = ""
    /\ out = <<>>
    /\ calls = <<>>
    /\ failures = 0

\* lines 300-308: the identity lookup and its assert
AccountCreateLookupLenient ==
    /\ op = "stdAccountCreate" /\ pc = "lookup"
    /\ calls' = Append(calls, [api |-> "getIdentityByName", name |-> CreateName])
    /\ pc' = IF GetIdentityByName(CreateName) = NoValue THEN "returned" ELSE "resolve"
    /\ UNCHANGED <<op, platform, config, input, idx, localsAL, localsEL, localsAR,
                   error, out, failures>>
AccountCreateLookup ==
    /\ op = "stdAccountCreate" /\ pc = "lookup"
    /\ calls' = Append(calls, [api |-> "getIdentityByName", name |-> CreateName])
    /\ IF GetIdentityByName(CreateName) = NoValue
       THEN pc' = "failed" /\ error' = "Identity not found"
       ELSE pc' = "resolve" /\ error' = error
    /\ UNCHANGED <<op, platform, config, input, idx, localsAL, localsEL, localsAR,
                   out, failures>>

\* lines 310-313: the names are resolved, and the resolved ids are what
\* createAccessRequest is called with
AccountCreateResolve ==
    /\ op = "stdAccountCreate" /\ pc = "resolve"
    /\ LET identity == GetIdentityByName(CreateName).obj
           sourceEntitlements == GetSourceEntitlements(input.attributes.entitlements)
       IN  request' = Call(identity.id, sourceEntitlements, GrantAccess)
    /\ calls' = calls \o LookupCalls(input.attributes.entitlements)
    /\ pc' = "request"
    /\ UNCHANGED <<op, platform, config, input, idx, localsAL, localsEL, response,
                   entitlementsAdd, entitlementsRemove, error, out, failures>>

\* lines 314-326: the account record echoes the requested entitlements
AccountCreateSend ==
    /\ op = "stdAccountCreate" /\ pc = "returned"
    /\ out' = Append(out, AccountRecord(CreateName, input.attributes.entitlements))
    /\ pc' = "done"
    /\ UNCHANGED <<op, platform, config, input, idx, localsAL, localsEL, localsAR,
                   error, calls, failures>>

----------------------------------------------------------------------------
(* stdAccountUpdate *)

Change(o, v) == [op |-> o, attribute |-> "entitlements", value |-> v]

\* [change.value].flat(): the value of a change, a name or an array of names
ChangeValues == {<<"p-r">>, <<"p">>, <<"p-r", "zz">>}

UpdateInputs ==
    { [identity |-> "alice", changes |-> cs] :
        cs \in SeqsUpTo({Change(o, v) : o \in {"Add", "Remove", "Set"}, v \in ChangeValues},
                        MaxChanges) }

Account(ents) == JSObject([identityId |-> "id-alice", attributes |-> [entitlements |-> ents]])

\* What isc.getAccountBySource(input.identity, source.id) can return.
AccountConfigs == {NoValue, Account(<<>>), Account(<<"p-r", "p-e-r">>)}

InitAccountUpdate ==
    /\ op = "stdAccountUpdate"
    /\ pc = "lookup"
    /\ srcEnts \in SrcEntConfigs
    /\ identities = AccessIdentities
    /\ rawEnts = <<>>
    /\ accounts \in AccountConfigs
    /\ profiles = <<>>
    /\ config = [createAccessProfile |-> FALSE]
    /\ input \in UpdateInputs
    /\ idx = 0
    /\ entitlementsAttribute = <<>>
    /\ entitlementSearch = <<>>
    /\ products = <<>>
    /\ roles = <<>>
    /\ entitlements = <<>>
    /\ request = NoValue
    /\ response = NoValue
    /\ entitlementsAdd = <<>>
    /\ entitlementsRemove = <<>>
    /\ error = ""
    /\ out = <<>>
    /\ calls = <<>>
    /\ failures = 0

\* lines 330-341: the account lookup and its assert
AccountUpdateLookup ==
    /\ op = "stdAccountUpdate" /\ pc = "lookup"
    /\ calls' = Append(calls, [api |-> "getAccountBySource", nativeIdentity |-> input.identity])
    /\ idx' = 1
    /\ IF accounts = NoValue
       THEN pc' = "failed" /\ error' = "Account not found"
       ELSE /\ pc' = IF input.changes = <<>> THEN "send" ELSE "change"
            /\ error' = error
    /\ UNCHANGED <<op, platform, config, input, localsAL, localsEL, localsAR,
                   out, failures>>

\* lines 343-351: one change: the assert on its op, then the call of
\* createAccessRequest with its values
AccountUpdateChangeAlwaysGrants ==
    /\ op = "stdAccountUpdate" /\ pc = "change"
    /\ LET change == input.changes[idx]
       IN  IF change.op = "Set"
           THEN pc' = "failed" /\ error' = "Unsupported operation" /\ request' = request
           ELSE /\ request' = Call(accounts.obj.identityId, change.value, GrantAccess)
                /\ pc' = "request"
                /\ error' = error
    /\ UNCHANGED <<op, platform, config, input, idx, localsAL, localsEL, response,
                   entitlementsAdd, entitlementsRemove, out, calls, failures>>
AccountUpdateChange ==
    /\ op = "stdAccountUpdate" /\ pc = "change"
    /\ LET change == input.changes[idx]
           operation == IF change.op = "Add" THEN GrantAccess ELSE RevokeAccess
       IN  IF change.op = "Set"
           THEN pc' = "failed" /\ error' = "Unsupported operation" /\ request' = request
           ELSE /\ request' = Call(accounts.obj.identityId, change.value, operation)
                /\ pc' = "request"
                /\ error' = error
    /\ UNCHANGED <<op, platform, config, input, idx, localsAL, localsEL, response,
                   entitlementsAdd, entitlementsRemove, out, calls, failures>>

\* lines 353-359: the values join entitlementsAdd or entitlementsRemove
AccountUpdateRecord ==
    /\ op = "stdAccountUpdate" /\ pc = "returned"
    /\ IF request.requestType = GrantAccess
       THEN /\ entitlementsAdd' = entitlementsAdd \o request.entitlements
            /\ UNCHANGED entitlementsRemove
       ELSE /\ entitlementsRemove' = entitlementsRemove \o request.entitlements
            /\ UNCHANGED entitlementsAdd
    /\ idx' = idx + 1
    /\ pc' = IF idx = Len(input.changes) THEN "send" ELSE "change"
    /\ UNCHANGED <<op, platform, config, input, localsAL, localsEL, request, response,
                   error, out, calls, failures>>

\* lines 362-365: (existing ++ added) without the removed, then Array.from(new Set(..))
FinalEntitlementsAddsWin(existing, added, removed) ==
    LET Kept(x) == x \notin Range(removed)
    IN  SetAddAll(<<>>, SelectSeq(existing, Kept) \o added)
FinalEntitlements(existing, added, removed) ==
    LET Kept(x) == x \notin Range(removed)
    IN  SetAddAll(<<>>, SelectSeq(existing \o added, Kept))

\* lines 362-378: the account record
AccountUpdateSend ==
    /\ op = "stdAccountUpdate" /\ pc = "send"
    /\ out' = Append(out, AccountRecord(input.identity,
                  FinalEntitlements(accounts.obj.attributes.entitlements,
                                    entitlementsAdd, entitlementsRemove)))
    /\ pc' = "done"
    /\ UNCHANGED <<op, platform, config, input, idx, localsAL, localsEL, localsAR,
                   error, calls, failures>>

InitAccess == InitAccountCreate \/ InitAccountUpdate

NextAccess ==
    \/ AccountCreateLookup
    \/ AccountCreateResolve
    \/ AccountCreateSend
    \/ AccountUpdateLookup
    \/ AccountUpdateChange
    \/ AccountUpdateRecord
    \/ AccountUpdateSend
    \/ CreateAccessRequestResolve
    \/ CreateAccessRequestSubmit
    \/ CreateAccessRequestWait
    \/ CreateAccessRequestResubmit

SpecAccess == InitAccess /\ [][NextAccess]_vars

----------------------------------------------------------------------------
(* Claims about createAccessRequest, stdAccountCreate and stdAccountUpdate *)

IsAttempt(c) == c.api \in {"createAccessRequest", "setTimeout"}

\* The submissions and delays at the end of calls: those of the latest call
\* of createAccessRequest, whose resolution made the remote calls before them.
Attempts ==
    LET from == CHOOSE n \in 1..(Len(calls) + 1) :
                    /\ \A k \in n..Len(calls) : IsAttempt(calls[k])
                    /\ n > 1 => ~IsAttempt(calls[n - 1])
    IN  SubSeq(calls, from, Len(calls))

Submissions(a) == {k \in DOMAIN a : a[k].api = "createAccessRequest"}
Delays(a) == {k \in DOMAIN a : a[k].api = "setTimeout"}

\* The ids the proxy names of the create-account input stand for.
RequestedIds ==
    UNION {Range(srcEnts[k].ids) :
              k \in {j \in DOMAIN srcEnts :
                        srcEnts[j].value \in Range(input.attributes.entitlements)}}

\* C2: the request create-account submits carries exactly the deduplicated
\* union of the underlying ids of the proxy entitlements named in the input.
C2_CreateRequestsUnderlyingIds ==
    op = "stdAccountCreate" =>
        \A k \in DOMAIN calls :
            calls[k].api = "createAccessRequest" =>
                /\ {calls[k].requestedItems[j].id : j \in DOMAIN calls[k].requestedItems}
                      = RequestedIds
                /\ Len(calls[k].requestedItems) = Cardinality(RequestedIds)

\* C3: when update-account rejects a Set change, no remote call has been made.
C3_SetRejectedBeforeAnyCall ==
    (op = "stdAccountUpdate" /\ error = "Unsupported operation") => calls = <<>>

\* C5: a rejected first submission is followed by one delay of 60 seconds
\* and one resubmission of the same request, whose response is the one
\* returned; an accepted first submission is followed by neither.
C5_RetryOnce ==
    /\ pc = "wait" =>
          /\ Len(Attempts) = 1
          /\ Attempts[1].api = "createAccessRequest" /\ ~Attempts[1].ok
    /\ pc = "resubmit" =>
          /\ Len(Attempts) = 2
          /\ Attempts[1].api = "createAccessRequest" /\ ~Attempts[1].ok
          /\ Attempts[2] = [api |-> "setTimeout", ms |-> 60000]
    /\ pc = "returned" =>
          /\ Attempts # <<>>
          /\ Attempts[1].api = "createAccessRequest"
          /\ Attempts[1].requestedFor = <<request.identity>>
          /\ Attempts[1].requestType = request.requestType
          /\ IF Attempts[1].ok
             THEN Len(Attempts) = 1
             ELSE /\ Len(Attempts) = 3
                  /\ Attempts[2] = [api |-> "setTimeout", ms |-> 60000]
                  /\ Attempts[3] = [Attempts[1] EXCEPT !.ok = TRUE]
          /\ response = [receipt |-> Len(calls)]

C5_Witness ==
    /\ pc = "returned"
    /\ Len(Attempts) = 3
    /\ Attempts[3].ok
    /\ Attempts[3].requestedItems # <<>>

\* C6: one call of createAccessRequest submits at most twice and waits at
\* most once; when both submissions are rejected the handler fails with the
\* second rejection and emits nothing.
C6_BoundedRetry ==
    /\ Cardinality(Submissions(Attempts)) <= 2
    /\ Cardinality(Delays(Attempts)) <= 1
    /\ (Cardinality(Submissions(Attempts)) = 2 /\ ~Attempts[Len(Attempts)].ok) =>
          /\ pc = "failed"
          /\ error = "RemoteError"
          /\ out = <<>>

C6_Witness ==
    /\ pc = "failed"
    /\ Cardinality(Submissions(Attempts)) = 2
    /\ ~Attempts[1].ok /\ ~Attempts[3].ok
    /\ op = "stdAccountUpdate" /\ idx = 2

\* The names the current call of createAccessRequest was issued for: the
\* entitlements of the create-account input, the values of the current change
\* of the update-account input.
RequestedNames ==
    IF op = "stdAccountCreate" THEN input.attributes.entitlements
    ELSE input.changes[idx].value

\* C11: the comment given to every submission of create-account and of
\* update-account embeds the proxy entitlement names of the operation's
\* input, not the ids they resolve to.
C11_CommentEmbedsRequestedNames ==
    (op \in {"stdAccountCreate", "stdAccountUpdate"}
        /\ pc \in {"submit", "wait", "resubmit", "returned"}) =>
        request.comment = Comment(RequestedNames)

\* The submissions of access requests so far, in order.
UpdateSubmissions ==
    LET IsSubmission(c) == c.api = "createAccessRequest"
    IN  SelectSeq(calls, IsSubmission)

AcceptedBefore(subs, j) == Cardinality({i \in 1..(j - 1) : subs[i].ok})

\* C12: in update-account every submission is the request of the first
\* change whose request has not been accepted yet: it is for the identity of
\* the existing account, grants for Add and revokes for Remove, and carries
\* the ids of that change's values; a change gets at most two submissions
\* (the request and its retry), and when the handler is done every change has
\* had exactly one accepted request.
C12_OneRequestPerChange ==
    op = "stdAccountUpdate" =>
        LET subs == UpdateSubmissions
            ChangeOf(j) == AcceptedBefore(subs, j) + 1
        IN  /\ \A j \in DOMAIN subs :
                  /\ ChangeOf(j) \in DOMAIN input.changes
                  /\ LET change == input.changes[ChangeOf(j)]
                     IN  /\ change.op \in {"Add", "Remove"}
                         /\ subs[j].requestType =
                               (IF change.op = "Add" THEN "GRANT_ACCESS" ELSE "REVOKE_ACCESS")
                         /\ subs[j].requestedFor = <<accounts.obj.identityId>>
                         /\ [i \in DOMAIN subs[j].requestedItems |-> subs[j].requestedItems[i].id]
                               = GetSourceEntitlements(change.value)
            /\ \A k \in DOMAIN input.changes :
                  Cardinality({j \in DOMAIN subs : ChangeOf(j) = k}) <= 2
            /\ pc = "done" =>
                  Cardinality({j \in DOMAIN subs : subs[j].ok}) = Len(input.changes)

C12_Witness ==
    /\ op = "stdAccountUpdate" /\ pc = "done"
    /\ Len(input.changes) = 2
    /\ input.changes[1].op = "Remove" /\ input.changes[2].op = "Add"
    /\ Len(UpdateSubmissions) = 3
    /\ ~UpdateSubmissions[2].ok
    /\ UpdateSubmissions[3].requestedItems # <<>>

\* The values of the changes of update-account's input with the given op.
ChangedValues(o) ==
    UNION {Range(input.changes[k].value) :
              k \in {j \in DOMAIN input.changes : input.changes[j].op = o}}

\* C13: a finished update-account has emitted one account record, whose
\* entitlements are, without duplicates, the existing entitlements of the
\* account and the values of the Add changes, less the values of the Remove
\* changes, wherever in the change list the Remove changes stand.
C13_RecomputedEntitlements ==
    (op = "stdAccountUpdate" /\ pc = "done") =>
        /\ Len(out) = 1
        /\ out[1].identity = input.identity
        /\ Range(out[1].attributes.entitlements)
              = (Range(accounts.obj.attributes.entitlements) \cup ChangedValues("Add"))
                    \ ChangedValues("Remove")
        /\ NoDuplicates(out[1].attributes.entitlements)

C13_Witness ==
    /\ op = "stdAccountUpdate" /\ pc = "done"
    /\ Len(input.changes) = 2
    /\ input.changes[1].op = "Remove" /\ input.changes[2].op = "Add"
    /\ input.changes[1].value = input.changes[2].value
    /\ accounts.obj.attributes.entitlements # <<>>
    /\ out[1].attributes.entitlements = <<"p-e-r">>

HasSubmission == \E k \in DOMAIN calls : calls[k].api = "createAccessRequest"

\* C18: create-account for a name no identity has, and update-account for an
\* identity with no account on the proxy source, fail at the lookup: no
\* access request is submitted and no account record is emitted.
C18_LookupFailureIsTotal ==
    /\ (op = "stdAccountCreate" /\ pc # "lookup"
            /\ GetIdentityByName(CreateName) = NoValue) =>
          /\ pc = "failed" /\ error = "Identity not found"
          /\ out = <<>> /\ ~HasSubmission
    /\ (op = "stdAccountUpdate" /\ pc # "lookup" /\ accounts = NoValue) =>
          /\ pc = "failed" /\ error = "Account not found"
          /\ out = <<>> /\ ~HasSubmission

C18_Witness ==
    /\ op = "stdAccountCreate" /\ pc = "failed"
    /\ error = "Identity not found"
    /\ input.attributes.entitlements # <<>>
    /\ calls = <<[api |-> "getIdentityByName", name |-> "ghost"]>>

\* The ids the entitlements of the proxy source with one of the given values hold.
IdsBehind(names) ==
    UNION {Range(srcEnts[k].ids) :
              k \in {j \in DOMAIN srcEnts : srcEnts[j].value \in Range(names)}}

\* C21: what getSourceEntitlements returns for a list of names is, without
\* duplicates, the union of the ids of the proxy entitlements the names are
\* values of; a name that is the value of no entitlement, or of one with no
\* ids, adds nothing, and the caller goes on to the submission.
C21_ResolvedIdSet ==
    /\ pc \in {"submit", "wait", "resubmit", "returned"} =>
          /\ Range(request.sourceEntitlements) = IdsBehind(request.entitlements)
          /\ NoDuplicates(request.sourceEntitlements)
    /\ (op = "stdAccountCreate" /\ pc = "request") =>
          /\ Range(request.entitlements) = IdsBehind(input.attributes.entitlements)
          /\ NoDuplicates(request.entitlements)
    /\ error \in {"", "Identity not found", "Account not found",
                  "Unsupported operation", "RemoteError"}
    /\ error = "RemoteError" => ~calls[Len(calls)].ok

C21_Witness ==
    /\ op = "stdAccountCreate" /\ pc = "request"
    /\ input.attributes.entitlements = <<"p", "p-r">>
    /\ request.entitlements = <<"a", "b", "c">>

\* The accepted submissions so far.
Accepted == {k \in DOMAIN calls : calls[k].api = "createAccessRequest" /\ calls[k].ok}

\* C25: a request whose resolved id set is empty is submitted like any
\* other, with zero items, once when it is accepted, and the handler goes on:
\* a finished create-account has one accepted submission and a finished
\* update-account one per change, and either has emitted its record.
C25_EmptyRequestSubmitted ==
    /\ (pc \in {"wait", "resubmit", "returned"} /\ request.sourceEntitlements = <<>>) =>
          /\ Attempts # <<>>
          /\ Attempts[1].api = "createAccessRequest"
          /\ Attempts[1].requestedItems = <<>>
          /\ (pc = "returned" /\ Attempts[1].ok) => Len(Attempts) = 1
    /\ (op = "stdAccountCreate" /\ pc = "done") =>
          Cardinality(Accepted) = 1 /\ Len(out) = 1
    /\ (op = "stdAccountUpdate" /\ pc = "done") =>
          Cardinality(Accepted) = Len(input.changes) /\ Len(out) = 1

C25_Witness ==
    /\ op = "stdAccountUpdate" /\ pc = "done"
    /\ Len(input.changes) = 1 /\ input.changes[1].value = <<"p">>
    /\ calls[Len(calls)].api = "createAccessRequest"
    /\ calls[Len(calls)].requestedItems = <<>>
    /\ Len(out) = 1

C26_Emitted ==
    /\ out # <<>> =>
          /\ pc = "done"
          /\ \A k \in DOMAIN calls :
                (calls[k].api = "createAccessRequest" /\ ~calls[k].ok) =>
                    /\ k + 2 \in DOMAIN calls
                    /\ calls[k + 2] = [calls[k] EXCEPT !.ok = TRUE]
          /\ op = "stdAccountCreate" => Cardinality(Accepted) = 1
          /\ op = "stdAccountUpdate" => Cardinality(Accepted) = Len(input.changes)
    /\ (pc = "failed" /\ error = "RemoteError") =>
          /\ out = <<>>
          /\ op = "stdAccountUpdate" => Cardinality(Accepted) = idx - 1

C26_Step ==
    /\ pc # "failed"
    /\ calls = SubSeq(calls', 1, Len(calls))

\* C26: an account record is emitted only by a handler all of whose access
\* requests were accepted, at the first or at the second attempt; a request
\* rejected twice leaves the handler failed with no record, the requests
\* accepted for the earlier changes stay as they were submitted, and the
\* failed handler makes no further call.
C26_RecordOnlyAfterSuccess == []C26_Emitted /\ [][C26_Step]_vars

C26_Witness ==
    /\ op = "stdAccountUpdate" /\ pc = "failed" /\ error = "RemoteError"
    /\ idx = 2
    /\ Cardinality(Accepted) = 1
    /\ \E k \in Accepted : calls[k].requestedItems # <<>>
    /\ out = <<>>

----------------------------------------------------------------------------
(* Claims about stdEntitlementList *)

\* The inputs the build pass has put into the maps: those before the current
\* one while the loop runs, all of them after it, and those up to the
\* entitlement whose flip was rejected when the handler was left there.
Built ==
    IF op # "stdEntitlementList" \/ entitlementSearch = <<>> THEN <<>>
    ELSE IF pc = "build" THEN SubSeq(entitlementSearch, 1, idx - 1)
    ELSE IF pc = "failed" THEN SubSeq(entitlementSearch, 1, idx)
    ELSE entitlementSearch

\* The ids of the documents of docs at the positions in keep, in input order.
IdsAt(docs, keep) ==
    LET F[i \in 0..Len(docs)] ==
            IF i = 0 THEN <<>>
            ELSE IF i \in keep THEN Append(F[i - 1], docs[i].id) ELSE F[i - 1]
    IN  F[Len(docs)]

\* parseName of every name the search can return.
ParsedRawNames == [n \in RawNames |-> ParseName(JSString(n))]

\* C4: the rejection of the requestable flip of entitlement E does not end
\* the pass: E's id is in its product and role nodes, the entitlements after
\* E are processed and every node and leaf record is emitted.
C4_FlipFailureDoesNotAbort ==
    \A c \in Range(calls) :
        (op = "stdEntitlementList" /\ c.api = "patchEntitlement" /\ ~c.ok) =>
            /\ pc # "failed"
            /\ \E k \in DOMAIN products : c.id \in Range(products[k].node.attributes.ids)
            /\ \E k \in DOMAIN roles : c.id \in Range(roles[k].node.attributes.ids)
            /\ pc = "done" =>
                  Len(out) = Len(products) + Len(roles) + Len(entitlementSearch)

\* C7: after the build pass the product node keyed P holds the ids of
\* exactly the inputs whose parsed product is P, and the role node keyed P-R
\* the ids of exactly the inputs whose parsed product is P and parsed role is
\* R, both in input order; there is one node per key and no other node.
C7_HierarchyGrouping ==
    LET docs == Built
        P(i) == ParsedRawNames[docs[i].name].product
        R(i) == ParsedRawNames[docs[i].name].role
    IN  /\ \A j, k \in DOMAIN products : products[j].key = products[k].key => j = k
        /\ \A j, k \in DOMAIN roles : roles[j].key = roles[k].key => j = k
        /\ {products[k].key : k \in DOMAIN products} = {P(i) : i \in DOMAIN docs}
        /\ {roles[k].key : k \in DOMAIN roles} = {Template(P(i), R(i)) : i \in DOMAIN docs}
        /\ \A i \in DOMAIN docs :
              /\ \E k \in DOMAIN products :
                    /\ products[k].key = P(i)
                    /\ products[k].node.attributes.ids
                          = IdsAt(docs, {j \in DOMAIN docs : P(j) = P(i)})
              /\ \E k \in DOMAIN roles :
                    /\ roles[k].key = Template(P(i), R(i))
                    /\ roles[k].node.attributes.ids
                          = IdsAt(docs, {j \in DOMAIN docs : P(j) = P(i) /\ R(j) = R(i)})

C7_Witness ==
    /\ op = "stdEntitlementList" /\ pc = "done"
    /\ Len(entitlementSearch) = 2
    /\ Len(products) = 1 /\ products[1].key = <<"p">>
    /\ products[1].node.attributes.ids = <<"e1", "e2">>
    /\ Len(roles) = 2
    /\ roles[1].key = <<"p", "-", "r">> /\ roles[1].node.attributes.ids = <<"e1">>
    /\ roles[2].key = <<"p", "-", "s">> /\ roles[2].node.attributes.ids = <<"e2">>

Flips == {k \in DOMAIN calls : calls[k].api = "patchEntitlement"}

\* C22: in a pass every flip call replaces /requestable by true on an input
\* that the search returned as not requestable, no input gets two flip
\* calls, every processed input that was not requestable has got its call,
\* and no entitlement that was requestable has stopped being so.
C22_FlipOnlyWhenNeeded ==
    op = "stdEntitlementList" =>
        /\ \A k \in Flips :
              /\ calls[k].path = "/requestable" /\ calls[k].value = TRUE
              /\ \E i \in DOMAIN entitlementSearch :
                    /\ entitlementSearch[i].id = calls[k].id
                    /\ ~entitlementSearch[i].requestable
        /\ \A j, k \in Flips : calls[j].id = calls[k].id => j = k
        /\ \A i \in DOMAIN Built :
              ~Built[i].requestable => \E k \in Flips : calls[k].id = Built[i].id
        /\ \A i \in DOMAIN entitlementSearch :
              entitlementSearch[i].requestable => rawEnts[i].requestable

C22_Witness ==
    /\ op = "stdEntitlementList" /\ pc = "done"
    /\ Len(entitlementSearch) = 2
    /\ entitlementSearch[1].requestable /\ ~entitlementSearch[2].requestable
    /\ Cardinality(Flips) = 1
    /\ rawEnts[2].requestable

\* C23: a finished pass has emitted, after the nodes, one leaf record per
\* input and in input order, with the product, environment and role parsed
\* from the input's name, parent product-role and the input's id as its only
\* underlying id; no other emitted record is a leaf.
C23_LeafRecords ==
    (op = "stdEntitlementList" /\ pc = "done") =>
        LET n == Len(entitlementSearch)
            base == Len(out) - n
        IN  /\ base = Len(products) + Len(roles)
            /\ \A k \in 1..base : "environment" \notin DOMAIN out[k].attributes
            /\ \A i \in 1..n :
                  LET r == out[base + i]
                      d == entitlementSearch[i]
                      parsed == ParsedRawNames[d.name]
                  IN  /\ r.identity = d.name /\ r.uuid = d.name
                      /\ r.type = "entitlement"
                      /\ r.attributes.name = d.name
                      /\ r.attributes.product = parsed.product
                      /\ r.attributes.environment = parsed.environment
                      /\ r.attributes.role = parsed.role
                      /\ r.attributes.parent = parsed.product \o <<"-">> \o parsed.role
                      /\ r.attributes.ids = <<d.id>>

C23_Witness ==
    /\ op = "stdEntitlementList" /\ pc = "done"
    /\ Len(entitlementSearch) = 2 /\ Len(out) = 5
    /\ out[4].attributes.name = <<"p", "-", "e", "-", "s">>
    /\ out[4].attributes.parent = <<"p", "-", "s">>
    /\ out[4].attributes.ids = <<"e1">>
    /\ out[5].attributes.environment = <<"f">>
    /\ out[5].attributes.ids = <<"e2">>

\* C24: every node of the two maps, every node emitted and every membership
\* given to a create or patch of an access profile holds at least one id.
C24_NodesNeverEmpty ==
    op = "stdEntitlementList" =>
        /\ \A k \in DOMAIN products : products[k].node.attributes.ids # <<>>
        /\ \A k \in DOMAIN roles : roles[k].node.attributes.ids # <<>>
        /\ \A k \in DOMAIN out : out[k].attributes.ids # <<>>
        /\ \A k \in DOMAIN calls :
              calls[k].api \in {"updateAccessProfile", "createAccessProfile"} =>
                  calls[k].entitlements # <<>>

C24_Witness ==
    /\ op = "stdEntitlementList" /\ pc = "roles" /\ idx = 2
    /\ Len(products) = 2
    /\ \E k \in DOMAIN calls : calls[k].api = "createAccessProfile"
    /\ \E k \in DOMAIN calls : calls[k].api = "updateAccessProfile"
    /\ Len(out) = 3

\* C27: a pass whose search returned no document has failed at once: it is
\* not finished, has emitted nothing and has made no call but the search.
C27_EmptySearchFails ==
    (op = "stdEntitlementList" /\ pc # "search" /\ entitlementSearch = <<>>) =>
        /\ pc = "failed" /\ error = "TypeError"
        /\ out = <<>>
        /\ calls = <<[api |-> "search"]>>

C27_Witness ==
    /\ op = "stdEntitlementList" /\ pc = "failed" /\ error = "TypeError"
    /\ rawEnts = <<>>
    /\ config.createAccessProfile
    /\ calls = <<[api |-> "search"]>>

SyncApis == {"getAccessProfileByName", "updateAccessProfile", "createAccessProfile"}

\* The keys of the inputs in first-seen order.
ProductKeys ==
    SetAddAll(<<>>, [i \in DOMAIN entitlementSearch |->
                        ParsedRawNames[entitlementSearch[i].name].product])
RoleKeys ==
    SetAddAll(<<>>, [i \in DOMAIN entitlementSearch |->
                        Template(ParsedRawNames[entitlementSearch[i].name].product,
                                 ParsedRawNames[entitlementSearch[i].name].role)])

\* The records of a pass: the product nodes, the role nodes, the leaves.
ExpectedRecords ==
    [k \in DOMAIN ProductKeys |-> products[MapIndex(products, ProductKeys[k])].node]
    \o [k \in DOMAIN RoleKeys |-> roles[MapIndex(roles, RoleKeys[k])].node]
    \o [k \in DOMAIN entitlementSearch |-> EntitlementOf(entitlementSearch[k])]

\* C14: a rejected lookup, create or patch of an access profile does not end
\* the pass, and the finished pass has emitted every product node, role node
\* and leaf record, whatever the outcomes of the profile calls were.
C14_SyncFailureDoesNotAbort ==
    op = "stdEntitlementList" =>
        /\ (\E k \in DOMAIN calls : calls[k].api \in SyncApis /\ ~calls[k].ok) =>
              pc # "failed" /\ error = ""
        /\ pc = "done" => out = ExpectedRecords

C14_Witness ==
    /\ op = "stdEntitlementList" /\ pc = "done"
    /\ \E k \in DOMAIN calls : calls[k].api = "updateAccessProfile" /\ ~calls[k].ok
    /\ Len(out) = 5
    /\ profiles[1].requestable

\* C15: with synchronisation enabled the step that sends a node looks its
\* key up as a profile name and, when the lookup answers, issues exactly one
\* more call: a patch of the existing profile of that name, or a create when
\* there is none, either with the node's ids as membership and requestable
\* false.  No step makes a profile requestable, and no profile call is made
\* with the flag off or outside these steps.
C15_SyncStep ==
    LET new == SubSeq(calls', Len(calls) + 1, Len(calls'))
        Refs(ids) == [k \in DOMAIN ids |-> [id |-> ids[k], type |-> "ENTITLEMENT"]]
        Existing(name) == {k \in DOMAIN profiles : profiles[k].name = name}
        Synced(name, node) ==
            IF ~config.createAccessProfile THEN new = <<>> /\ profiles' = profiles
            ELSE /\ new # <<>>
                 /\ new[1].api = "getAccessProfileByName" /\ new[1].name = name
                 /\ IF ~new[1].ok THEN Len(new) = 1 /\ profiles' = profiles
                    ELSE /\ Len(new) = 2
                         /\ new[2].entitlements = Refs(node.attributes.ids)
                         /\ new[2].requestable = FALSE
                         /\ IF Existing(name) # {}
                            THEN /\ new[2].api = "updateAccessProfile"
                                 /\ \E k \in Existing(name) : new[2].id = profiles[k].id
                                 /\ Len(profiles') = Len(profiles)
                            ELSE /\ new[2].api = "createAccessProfile"
                                 /\ new[2].name = name
                         /\ new[2].ok =>
                               \E k \in DOMAIN profiles' :
                                   /\ profiles'[k].name = name
                                   /\ profiles'[k].entitlements = Refs(node.attributes.ids)
                                   /\ ~profiles'[k].requestable
    IN  op = "stdEntitlementList" =>
            /\ pc = "products" => Synced(products[idx].key, products[idx].node)
            /\ pc = "roles" => Synced(roles[idx].key, roles[idx].node)
            /\ pc \notin {"products", "roles"} =>
                  /\ profiles' = profiles
                  /\ \A k \in DOMAIN new : new[k].api \notin SyncApis
            /\ \A k \in DOMAIN profiles' :
                  profiles'[k].requestable => (k \in DOMAIN profiles /\ profiles[k].requestable)

C15_AccessProfileSync == [][C15_SyncStep]_vars

C15_Witness ==
    /\ op = "stdEntitlementList" /\ pc = "done"
    /\ \E k \in DOMAIN calls : calls[k].api = "updateAccessProfile" /\ calls[k].ok
    /\ \E k \in DOMAIN calls : calls[k].api = "createAccessProfile" /\ calls[k].ok
    /\ Len(profiles) = 3
    /\ \A k \in DOMAIN profiles : ~profiles[k].requestable

\* The places where a segment of s starts: after the start of s and after
\* every hyphen; the segment runs up to the next hyphen or the end of s.
SegmentStarts(s) == {0} \cup {i \in DOMAIN s : s[i] = "-"}
SegmentAt(s, b) ==
    LET ends == {i \in DOMAIN s : i > b /\ s[i] = "-"} \cup {Len(s) + 1}
        e == CHOOSE i \in ends : \A j \in ends : i <= j
    IN  SubSeq(s, b + 1, e - 1)

\* The k-th of the given segments counted from the end, "" when there are
\* fewer than k.
FromEnd(s, starts, k) ==
    IF \E b \in starts : Cardinality({c \in starts : c > b}) = k - 1
    THEN SegmentAt(s, CHOOSE b \in starts : Cardinality({c \in starts : c > b}) = k - 1)
    ELSE <<>>

\* C20 as stated: role, environment and product are the last, second-to-last
\* and third-to-last of the segments between the hyphens of the name, empty
\* segments included, and "" where the name has too few segments.
C20_LastThreeSegments ==
    (op = "parseName" /\ pc = "parsed" /\ input # NoValue) =>
        LET s == input.str
            all == SegmentStarts(s)
        IN  out = <<[product |-> FromEnd(s, all, 3),
                     environment |-> FromEnd(s, all, 2),
                     role |-> FromEnd(s, all, 1)]>>

\* C20 as amended: role, environment and product are the last,
\* second-to-last and third-to-last of the non-empty segments of the name,
\* and "" where the name has too few of them or is undefined; every name is
\* parsed without an error.
C20_LastThreeNonEmptySegments ==
    (op = "parseName" /\ pc = "parsed") =>
        IF input = NoValue
        THEN out = <<[product |-> <<>>, environment |-> <<>>, role |-> <<>>]>>
        ELSE LET s == input.str
                 nonEmpty == {b \in SegmentStarts(s) : SegmentAt(s, b) # <<>>}
             IN  /\ error = ""
                 /\ out = <<[product |-> FromEnd(s, nonEmpty, 3),
                             environment |-> FromEnd(s, nonEmpty, 2),
                             role |-> FromEnd(s, nonEmpty, 1)]>>

C20_Witness ==
    /\ op = "parseName" /\ pc = "parsed"
    /\ input = [kind |-> "string", str |-> <<"p", "-", "-", "q", "-", "p", "-">>]
    /\ out = <<[product |-> <<"p">>, environment |-> <<"q">>, role |-> <<"p">>]>>

\* The keys of a map, each with the set of ids its node holds.
Membership(m) == {<<m[k].key, Range(m[k].node.attributes.ids)>> : k \in DOMAIN m}

C19_Rerun ==
    (op = "buildHierarchy" /\ pc = "built") =>
        /\ Membership(products') = Membership(products)
        /\ Membership(roles') = Membership(roles)

\* C19: a second run of the hierarchy builder over the same raw entitlement
\* set, taken in the same or in any other order and after the first run made
\* every entitlement requestable, yields the product keys and role keys of
\* the first run, each with the same set of underlying ids.
C19_BuilderIdempotent == [][C19_Rerun]_vars

C19_Witness ==
    /\ op = "buildHierarchy" /\ pc = "rebuilt"
    /\ Len(entitlementSearch) = 2
    /\ entitlementSearch[1].id = "e2" /\ entitlementSearch[2].id = "e1"
    /\ Len(products) = 1
    /\ products[1].node.attributes.ids = <<"e2", "e1">>
    /\ Len(roles) = 2

UniqueProfileNames ==
    /\ \A j, k \in DOMAIN profiles : profiles[j].name = profiles[k].name => j = k
    /\ \A j, k \in DOMAIN calls :
          (/\ calls[j].api = "createAccessProfile" /\ calls[j].ok
           /\ calls[k].api = "createAccessProfile" /\ calls[k].ok
           /\ calls[j].name = calls[k].name) => j = k

C16_CreateStep ==
    LET new == SubSeq(calls', Len(calls) + 1, Len(calls'))
    IN  /\ \A k \in DOMAIN new :
              new[k].api = "createAccessProfile" =>
                  \A j \in DOMAIN profiles : profiles[j].name # new[k].name
        /\ Len(profiles') >= Len(profiles)
        /\ \A k \in DOMAIN profiles :
              profiles'[k].id = profiles[k].id /\ profiles'[k].name = profiles[k].name

\* C16: over passes run one after the other with synchronisation enabled,
\* the tenant never holds two profiles of one name and no name is created
\* twice; a create is only issued for a name no profile has, and a profile
\* that exists keeps its id and name (later passes patch it in place).
C16_CreatedOncePerName == []UniqueProfileNames /\ [][C16_CreateStep]_vars

C16_Witness ==
    /\ op = "stdEntitlementList" /\ pc = "done" /\ Passes = 2
    /\ \E j, k \in DOMAIN calls :
          /\ j < k
          /\ calls[j].api = "createAccessProfile" /\ calls[j].ok
          /\ calls[j].name = <<"q", "-", "r">>
          /\ calls[k].api = "updateAccessProfile" /\ calls[k].ok
          /\ calls[k].id = <<"ap", <<"q", "-", "r">>>>

\* C17: what a pass has emitted is always a prefix of: the product nodes in
\* first-seen order of their keys, then the role nodes in first-seen order of
\* their keys, then the leaf records in input order; the role loop starts
\* once every product node is out and the leaf loop once every role node is.
C17_EmissionOrder ==
    (op = "stdEntitlementList" /\ pc \in {"products", "roles", "leaves", "done"}) =>
        /\ out = SubSeq(ExpectedRecords, 1, Len(out))
        /\ pc = "products" => Len(out) = idx - 1
        /\ pc = "roles" => Len(out) = Len(ProductKeys) + idx - 1
        /\ pc = "leaves" => Len(out) = Len(ProductKeys) + Len(RoleKeys) + idx - 1
        /\ pc = "done" => Len(out) = Len(ExpectedRecords)

C17_Witness ==
    /\ op = "stdEntitlementList" /\ pc = "done"
    /\ Len(out) = 6
    /\ out[1].attributes.name = <<"q">> /\ out[2].attributes.name = <<"p">>
    /\ out[3].attributes.name = <<"q", "-", "r">>
    /\ out[5].attributes.name = <<"q", "-", "e", "-", "r">>

----------------------------------------------------------------------------
(* Claims about stdAccountList *)

\* The identities whose loop iteration is over.
Processed == IF op = "stdAccountList" THEN 1..(idx - 1) ELSE {}

\* The entitlements lists of the records emitted for a subject.
EmittedFor(name) ==
    {out[k].attributes.entitlements : k \in {j \in DOMAIN out : out[j].identity = name}}

\* The subject holds the raw entitlement id directly.
HoldsId(ident, id) ==
    \E k \in DOMAIN ident.access :
        ident.access[k].type = "ENTITLEMENT" /\ ident.access[k].id = id

\* The subject holds a grant of the proxy source named n.
HoldsProxyGrant(ident, n) ==
    \E k \in DOMAIN ident.access :
        /\ ident.access[k].type = "ENTITLEMENT"
        /\ ident.access[k].source = ProxySourceId
        /\ ident.access[k].name = n

UnderlyingIds == UNION {Range(srcEnts[k].ids) : k \in DOMAIN srcEnts}

\* The names pass 1 is to add for a subject.
DirectNames(ident) ==
    {ident.access[k].name :
        k \in {j \in DOMAIN ident.access :
                  /\ ident.access[j].type = "ENTITLEMENT"
                  /\ ident.access[j].id \in UnderlyingIds}}

\* C1: a subject that directly holds every id of node X and holds a proxy
\* grant named X (X's name not added by pass 1) has X's proxy value in the
\* entitlements of its emitted account record.
C1_ProxySubsumption ==
    \A i \in Processed : \A k \in DOMAIN srcEnts :
        LET X == srcEnts[k]
            ident == identities[i]
        IN  ( /\ X.ids # <<>>
              /\ \A id \in Range(X.ids) : HoldsId(ident, id)
              /\ HoldsProxyGrant(ident, X.name)
              /\ X.name \notin DirectNames(ident) )
            => \E l \in EmittedFor(ident.name) : X.value \in Range(l)

\* C8: after pass 1 the held set is exactly the names of the ENTITLEMENT
\* items whose id is an underlying id of the proxy source, and each of these
\* names is in the record emitted for the subject.
C8_DirectHoldings ==
    /\ (op = "stdAccountList" /\ pc = "pass2")
          => Range(entitlementsAttribute) = DirectNames(identities[idx])
    /\ \A i \in Processed : \A n \in DirectNames(identities[i]) :
          \E l \in EmittedFor(identities[i].name) : n \in Range(l)

C8_Witness ==
    /\ op = "stdAccountList" /\ pc = "done"
    /\ \E i \in DOMAIN identities :
          /\ DirectNames(identities[i]) # {}
          /\ \E k \in DOMAIN identities[i].access :
                identities[i].access[k].type = "ROLE"
          /\ \E k \in DOMAIN identities[i].access :
                /\ identities[i].access[k].type = "ENTITLEMENT"
                /\ identities[i].access[k].id \notin UnderlyingIds
          /\ \E l \in EmittedFor(identities[i].name) :
                Range(l) = DirectNames(identities[i])

\* The nodes a subject holds a proxy grant of without holding all their ids.
PartialGrants(ident) ==
    {X \in Range(srcEnts) :
        /\ HoldsProxyGrant(ident, X.name)
        /\ X.ids # <<>>
        /\ \E id \in Range(X.ids) : ~HoldsId(ident, id)}

\* C9: pass 2 never adds the proxy value of a node whose non-empty
\* underlyingIds the subject holds only in part.
C9_PartialNeverCounts ==
    [][(op = "stdAccountList" /\ pc = "pass2") =>
          \A X \in PartialGrants(identities[idx]) :
              X.value \in Range(entitlementsAttribute')
                  => X.value \in Range(entitlementsAttribute)]_vars

C9_Witness ==
    /\ op = "stdAccountList" /\ pc = "send"
    /\ \E X \in PartialGrants(identities[idx]) :
          /\ \E id \in Range(X.ids) : HoldsId(identities[idx], id)
          /\ X.value \notin Range(entitlementsAttribute)
          /\ entitlementsAttribute # <<>>

\* C10: a record is emitted for a subject exactly when its held set is not
\* empty, at most once per subject, and no emitted record has an empty or a
\* duplicated entitlements list.
C10_Records ==
    /\ \A k \in DOMAIN out :
          /\ out[k].attributes.entitlements # <<>>
          /\ NoDuplicates(out[k].attributes.entitlements)
    /\ \A j, k \in DOMAIN out : out[j].identity = out[k].identity => j = k

C10_SendStep ==
    IF op = "stdAccountList" /\ pc = "send"
    THEN IF entitlementsAttribute # <<>>
         THEN out' = Append(out, AccountRecord(identities[idx].name, entitlementsAttribute))
         ELSE out' = out
    ELSE op = "stdAccountList" => out' = out

C10_OneRecordPerHolder == []C10_Records /\ [][C10_SendStep]_vars

C10_Witness ==
    /\ op = "stdAccountList" /\ pc = "done"
    /\ Len(out) = 1
    /\ out[1].identity = identities[2].name
    /\ Len(out[1].attributes.entitlements) = 2
    /\ identities[1].access # <<>>

====
